---- MODULE Spec2Model ----
(***************************************************************************)
(* A model of llm.py: the model-alias resolver (resolve_model_name), the   *)
(* liveness probe (is_ollama_running), the generation request              *)
(* (query_ollama), summarise_file and the control flow of main.            *)
(*                                                                         *)
(* Strings are TLA+ strings; characters are strings of length one.        *)
(***************************************************************************)
EXTENDS Integers, Sequences, FiniteSets, TLC

VARIABLES
    argv,            \* sys.argv[1:], the input of the invocation
    args,            \* main's working list `args`
    pc,              \* the position of main
    verbose,         \* main's local `verbose`
    raw,             \* main's local `raw`
    model,           \* main's local `model`
    model_specified, \* main's local `model_specified`
    summarise,       \* TRUE once the --summarise branch has been entered
    file_path,       \* main's local `file_path`
    question,        \* main's local `question`
    resolved_model,  \* main's local `resolved_model`
    probe,           \* how requests.get of the liveness probe ended
    running,         \* what is_ollama_running did: "unset", "true", "false", "raised"
    net,             \* the network operations issued so far, in order
    posted,          \* the JSON bodies of the generation requests issued so far
    file_state,      \* what summarise_file found at file_path
    gen,             \* how the generation request ended
    console,         \* the messages printed so far, in order
    outcome,         \* how the invocation ended
    exit_code,       \* the exit status of the process, -1 while it runs
    r_pc,            \* resolver harness: position
    r_in,            \* resolver harness: the input string
    r_out,           \* resolver harness: resolve_model_name(r_in)
    r_out2           \* resolver harness: resolve_model_name applied to r_out

mvars == <<argv, args, pc, verbose, raw, model, model_specified, summarise,
           file_path, question, resolved_model, probe, running, net, posted,
           file_state, gen, console, outcome, exit_code>>
rvars == <<r_pc, r_in, r_out, r_out2>>
vars == <<mvars, rvars>>

-----------------------------------------------------------------------------
(* Bounds *)

MaxArgs == 4     \* longest argv explored
MaxFrags == 3    \* longest resolver input, in fragments

-----------------------------------------------------------------------------
(* Python's str operations, as the code uses them *)

UpperAlpha == "ABCDEFGHIJKLMNOPQRSTUVWXYZ"
LowerAlpha == "abcdefghijklmnopqrstuvwxyz"

CharAt(str, pos) == SubSeq(str, pos, pos)

\* str.lower() on one character
LowerChar(ch) ==
    IF \E u \in 1..Len(UpperAlpha) : CharAt(UpperAlpha, u) = ch
    THEN CharAt(LowerAlpha, CHOOSE u \in 1..Len(UpperAlpha) : CharAt(UpperAlpha, u) = ch)
    ELSE ch

\* str.lower(), character by character from position pos on
RECURSIVE lowerFrom(_, _)
lowerFrom(mixed, pos) ==
    IF pos > Len(mixed) THEN ""
    ELSE LowerChar(CharAt(mixed, pos)) \o lowerFrom(mixed, pos + 1)

lower(mixed) == lowerFrom(mixed, 1)

IsSpace(ch) == ch \in {" ", "\t", "\n"}

\* str.strip(): what lies between the first and the last non-space character
strip(padded) ==
    LET solid == { p \in 1..Len(padded) : ~IsSpace(CharAt(padded, p)) }
    IN  IF solid = {} THEN ""
        ELSE SubSeq(padded,
                    CHOOSE p \in solid : \A q \in solid : p <= q,
                    CHOOSE p \in solid : \A q \in solid : q <= p)

\* `sub in hay`
Contains(sub, hay) ==
    \E k \in 1..(Len(hay) - Len(sub) + 1) : SubSeq(hay, k, k + Len(sub) - 1) = sub

\* " ".join(xs)
RECURSIVE join(_)
join(xs) ==
    IF Len(xs) = 0 THEN ""
    ELSE IF Len(xs) = 1 THEN xs[1]
    ELSE xs[1] \o " " \o join(Tail(xs))

-----------------------------------------------------------------------------
(* The alias table and resolve_model_name *)

DEFAULT_MODEL == "phi3:latest"

\* a dict keeps insertion order: the sequence is the iteration order of items()
ALIAS_MAP == <<
    [alias |-> "qwen",     actual |-> "qwen3-vl:235b-cloud"],
    [alias |-> "deepseek", actual |-> "deepseek-r1:8b"],
    [alias |-> "phi3",     actual |-> "phi3:latest"] >>

\* ALIAS_MAP.values()
AliasValues == { ALIAS_MAP[i].actual : i \in 1..Len(ALIAS_MAP) }

Returned(v) == [raised |-> FALSE, value |-> v]
Raised(msg) == [raised |-> TRUE, value |-> msg]

Matching(text) == { e \in 1..Len(ALIAS_MAP) : Contains(ALIAS_MAP[e].alias, text) }

LastMatch(text) ==
    LET m == Matching(text)
    IN  IF m = {} THEN 0 ELSE CHOOSE i \in m : \A j \in m : j <= i

\* the index of the alias at which the loop of lines 34-36 returns, 0 if it runs out
FirstMatch(text) ==
    LET m == Matching(text)
    IN  IF m = {} THEN 0 ELSE CHOOSE i \in m : \A j \in m : i <= j

ReturnAlias(i) == ALIAS_MAP[i].alias

\* what the loop returns at index i
ReturnActual(i) == ALIAS_MAP[i].actual

resolve_model_name(requested_name) ==
    IF requested_name = "" THEN Returned(requested_name)
    ELSE LET stripped == strip(requested_name)
             lowered == lower(stripped)
             hit == FirstMatch(lowered)
         IN  IF stripped = "" THEN Returned(stripped)
             ELSE IF hit # 0 THEN Returned(ReturnActual(hit))
             ELSE IF stripped \in AliasValues THEN Returned(stripped)
             ELSE Raised("that model isn't available")

-----------------------------------------------------------------------------
(* The resolver on its own: every input, then the result fed back *)

Frags == { "qwen", "deepseek", "DeepSeek", "phi3", " ", "x",
           "3-vl:235b-cloud", "-r1:8b", ":latest", "ph", "i3" }

RECURSIVE Concats(_)
Concats(n) ==
    IF n = 0 THEN {""}
    ELSE LET shorter == Concats(n - 1)
         IN  shorter \cup { s \o f : s \in shorter, f \in Frags }

Inputs == Concats(MaxFrags)

MainIdle ==
    /\ argv = <<>> /\ args = <<>> /\ pc = "off"
    /\ verbose = FALSE /\ raw = FALSE
    /\ model = DEFAULT_MODEL /\ model_specified = FALSE
    /\ summarise = FALSE /\ file_path = "" /\ question = ""
    /\ resolved_model = "" /\ probe = "unset" /\ running = "unset"
    /\ net = <<>> /\ posted = <<>>
    /\ file_state = "unset" /\ gen = "unset" /\ console = <<>>
    /\ outcome = "running" /\ exit_code = -1

ResolverIdle ==
    /\ r_pc = "off" /\ r_in = "" /\ r_out = Returned("") /\ r_out2 = Returned("")

ResolveInit ==
    /\ MainIdle
    /\ r_in \in Inputs
    /\ r_pc = "start"
    /\ r_out = Returned("")
    /\ r_out2 = Returned("")

Resolve ==
    /\ r_pc = "start"
    /\ r_out' = resolve_model_name(r_in)
    /\ r_pc' = "resolved"
    /\ UNCHANGED <<r_in, r_out2, mvars>>

ResolveAgain ==
    /\ r_pc = "resolved"
    /\ ~r_out.raised
    /\ r_out2' = resolve_model_name(r_out.value)
    /\ r_pc' = "again"
    /\ UNCHANGED <<r_in, r_out, mvars>>

ResolveNext == Resolve \/ ResolveAgain

ResolveSpec == ResolveInit /\ [][ResolveNext]_vars

-----------------------------------------------------------------------------
(* The network and the file system, as main sees them *)

HttpResponses == { "http_200", "http_404", "http_500" }

\* the ways requests.get can fail to produce a response
ProbeFailures == { "refused", "dns_failure", "connect_timeout", "read_timeout" }

ProbeOutcomes == HttpResponses \cup ProbeFailures

\* requests raises ConnectionError for a refused connection and a failed name
\* lookup, ConnectTimeout (a ConnectionError and a Timeout) when connecting times
\* out, and ReadTimeout (a Timeout only) when the response does not arrive in time
IsConnectionError(o) == o \in { "refused", "dns_failure", "connect_timeout" }

is_ollama_running(o) ==
    IF o \in HttpResponses THEN "true"
    ELSE IF IsConnectionError(o) THEN "false"
    ELSE "raised"

GenSuccesses == { "ok", "no_field" }

\* requests.post raises (transport_error, timeout), raise_for_status raises
\* (http_error), response.json() raises (bad_json), data.get(...).strip() raises
\* (wrong_shape)
GenFailures == { "transport_error", "timeout", "http_error", "bad_json", "wrong_shape" }

GenOutcomes == GenSuccesses \cup GenFailures

query_ollama(g) ==
    IF g = "ok" THEN Returned("text")
    ELSE IF g = "no_field" THEN Returned("")
    ELSE Raised(g)

PostsIssuedTwice(body) == <<body, body>>

\* the POSTs one call of query_ollama issues
PostsIssued(body) == <<body>>

FileStates == { "missing", "unreadable", "empty", "text" }

Proceed == [exits |-> FALSE, code |-> 0, msg |-> "summarising"]
ExitWith(c, m) == [exits |-> TRUE, code |-> c, msg |-> m]

summarise_file_checks_empty_ok(fs) ==
    IF fs = "missing" THEN ExitWith(1, "file_not_found")
    ELSE IF fs = "unreadable" THEN ExitWith(1, "read_error")
    ELSE IF fs = "empty" THEN ExitWith(0, "file_empty")
    ELSE Proceed

\* the checks of summarise_file before the request
summarise_file_checks(fs) ==
    IF fs = "missing" THEN ExitWith(1, "file_not_found")
    ELSE IF fs = "unreadable" THEN ExitWith(1, "read_error")
    ELSE IF fs = "empty" THEN ExitWith(1, "file_empty")
    ELSE Proceed

-----------------------------------------------------------------------------
(* list operations of main *)

\* args.index(x), 1-based; x is in xs
IndexOf(xs, x) == CHOOSE i \in 1..Len(xs) : xs[i] = x /\ \A j \in 1..(i - 1) : xs[j] # x

InList(xs, x) == \E i \in 1..Len(xs) : xs[i] = x

\* del xs[i:i+2], i 1-based
DelTwo(xs, i) == SubSeq(xs, 1, i - 1) \o SubSeq(xs, i + 2, Len(xs))

-----------------------------------------------------------------------------
(* main *)

Tokens == { "--model", "--summarise", "--verbose", "--raw",
            "qwen", "", " ", "notes.txt" }

ArgvSet == UNION { [1..n -> Tokens] : n \in 0..MaxArgs }

\* resolve_model_name on every value `model` can hold, computed once
Resolutions == [name \in Tokens \cup {DEFAULT_MODEL} |-> resolve_model_name(name)]

Init ==
    /\ ResolverIdle
    /\ argv \in ArgvSet
    /\ args = <<>> /\ pc = "start"
    /\ verbose = FALSE /\ raw = FALSE
    /\ model = DEFAULT_MODEL /\ model_specified = FALSE
    /\ summarise = FALSE /\ file_path = "" /\ question = ""
    /\ resolved_model = "" /\ probe = "unset" /\ running = "unset"
    /\ net = <<>> /\ posted = <<>>
    /\ file_state = "unset" /\ gen = "unset" /\ console = <<>>
    /\ outcome = "running" /\ exit_code = -1

\* sys.exit(code) after printing msgs; an uncaught exception ends the
\* interpreter with a traceback and status 1
Exit(code, how, msgs) ==
    /\ pc' = "done"
    /\ exit_code' = code
    /\ outcome' = how
    /\ console' = console \o msgs

Uncaught == Exit(1, "uncaught", <<"traceback">>)

\* lines 98-107
Start ==
    /\ pc = "start"
    /\ args' = argv
    /\ IF argv = <<>>
       THEN /\ Exit(1, "usage", <<"usage">>)
            /\ UNCHANGED <<verbose, raw, model, model_specified>>
       ELSE /\ verbose' = InList(argv, "--verbose")
            /\ raw' = InList(argv, "--raw")
            /\ model' = DEFAULT_MODEL
            /\ model_specified' = FALSE
            /\ pc' = "parse_model"
            /\ UNCHANGED <<exit_code, outcome, console>>
    /\ UNCHANGED <<argv, summarise, file_path, question, resolved_model, probe,
                   running, net, posted, file_state, gen, rvars>>

\* lines 112-120
ParseModel ==
    /\ pc = "parse_model"
    /\ IF InList(args, "--model")
       THEN LET model_index == IndexOf(args, "--model")
            IN  IF model_index + 1 > Len(args)
                THEN /\ Exit(1, "missing_model", <<"missing_model">>)
                     /\ UNCHANGED <<args, model, model_specified>>
                ELSE /\ model' = args[model_index + 1]
                     /\ args' = DelTwo(args, model_index)
                     /\ model_specified' = TRUE
                     /\ pc' = "parse_summarise"
                     /\ UNCHANGED <<exit_code, outcome, console>>
       ELSE /\ pc' = "parse_summarise"
            /\ UNCHANGED <<args, model, model_specified, exit_code, outcome, console>>
    /\ UNCHANGED <<argv, verbose, raw, summarise, file_path, question,
                   resolved_model, probe, running, net, posted, file_state, gen,
                   rvars>>

\* lines 123-131
ParseSummarise ==
    /\ pc = "parse_summarise"
    /\ IF InList(args, "--summarise")
       THEN LET idx == IndexOf(args, "--summarise")
            IN  IF idx + 1 > Len(args)
                THEN /\ Exit(1, "missing_file_path", <<"missing_file_path">>)
                     /\ UNCHANGED <<args, file_path, summarise>>
                ELSE /\ file_path' = args[idx + 1]
                     /\ args' = DelTwo(args, idx)
                     /\ summarise' = TRUE
                     /\ pc' = "probe"
                     /\ UNCHANGED <<exit_code, outcome, console>>
       ELSE /\ pc' = "join"
            /\ UNCHANGED <<args, file_path, summarise, exit_code, outcome, console>>
    /\ UNCHANGED <<argv, verbose, raw, model, model_specified, question,
                   resolved_model, probe, running, net, posted, file_state, gen,
                   rvars>>

\* line 153; from here on control is on the question path
JoinQuestion ==
    /\ pc = "join"
    /\ question' = join(args)
    /\ summarise' = FALSE
    /\ pc' = "probe"
    /\ UNCHANGED <<argv, args, verbose, raw, model, model_specified, file_path,
                   resolved_model, probe, running, net, posted, file_state, gen,
                   console, outcome, exit_code, rvars>>

\* line 45: the GET leaves
ProbeSend ==
    /\ pc = "probe"
    /\ net' = Append(net, "GET")
    /\ pc' = "probing"
    /\ UNCHANGED <<argv, args, verbose, raw, model, model_specified, summarise,
                   file_path, question, resolved_model, probe, running, posted,
                   file_state, gen, console, outcome, exit_code, rvars>>

AfterProbeIgnored(r) == IF r = "raised" THEN "uncaught" ELSE "resolve"

\* `if not is_ollama_running(): ... sys.exit(1)` of lines 133-136 and 155-158
AfterProbe(r) ==
    IF r = "raised" THEN "uncaught"
    ELSE IF r = "false" THEN "exit"
    ELSE "resolve"

\* lines 45-48 and 133-136 / 155-158: the GET ends
ProbeReturn ==
    /\ pc = "probing"
    /\ \E o \in ProbeOutcomes :
        LET r == is_ollama_running(o)
            to == AfterProbe(r)
        IN  /\ probe' = o
            /\ running' = r
            /\ IF to = "uncaught" THEN Uncaught
               ELSE IF to = "exit"
               THEN Exit(1, "not_running", <<"not_running", "start_hint">>)
               ELSE /\ pc' = "resolve"
                    /\ UNCHANGED <<exit_code, outcome, console>>
    /\ UNCHANGED <<argv, args, verbose, raw, model, model_specified, summarise,
                   file_path, question, resolved_model, net, posted, file_state,
                   gen, rvars>>

AfterResolveFallBack(r, name) == [exits |-> FALSE, value |-> name]

\* the try/except of lines 138-142 and 160-164
AfterResolve(r, name) ==
    IF r.raised THEN [exits |-> TRUE, value |-> r.value]
    ELSE [exits |-> FALSE, value |-> r.value]

\* lines 138-145 / 160-170
ResolveModel ==
    /\ pc = "resolve"
    /\ LET a == AfterResolve(Resolutions[model], model)
           using == IF a.value # model /\ model_specified
                    THEN <<"using_model">> ELSE <<>>
           asking == IF ~summarise /\ verbose THEN <<"asking">> ELSE <<>>
       IN  IF a.exits
           THEN /\ Exit(1, "unknown_model", <<a.value>>)
                /\ UNCHANGED resolved_model
           ELSE /\ resolved_model' = a.value
                /\ console' = console \o using \o asking
                /\ pc' = IF summarise THEN "summarise" ELSE "post"
                /\ UNCHANGED <<exit_code, outcome>>
    /\ UNCHANGED <<argv, args, verbose, raw, model, model_specified, summarise,
                   file_path, question, probe, running, net, posted, file_state,
                   gen, rvars>>

\* lines 61-78
SummariseFile ==
    /\ pc = "summarise"
    /\ \E fs \in FileStates :
        LET c == summarise_file_checks(fs)
        IN  /\ file_state' = fs
            /\ IF c.exits
               THEN Exit(c.code, c.msg, <<c.msg>>)
               ELSE /\ console' = Append(console, c.msg)
                    /\ pc' = "post"
                    /\ UNCHANGED <<exit_code, outcome>>
    /\ UNCHANGED <<argv, args, verbose, raw, model, model_specified, summarise,
                   file_path, question, resolved_model, probe, running, net,
                   posted, gen, rvars>>

\* lines 52-56: the POST leaves
PostSend ==
    /\ pc = "post"
    /\ LET bodies == PostsIssued([model |-> resolved_model, stream |-> FALSE])
       IN  /\ posted' = posted \o bodies
           /\ net' = net \o [i \in 1..Len(bodies) |-> "POST"]
    /\ pc' = "posting"
    /\ UNCHANGED <<argv, args, verbose, raw, model, model_specified, summarise,
                   file_path, question, resolved_model, probe, running,
                   file_state, gen, console, outcome, exit_code, rvars>>

AfterSummariseFallThrough == "join"

\* sys.exit(0) of line 148
AfterSummarise == "done"

\* lines 57-59, then lines 90-94 and 148, or lines 180-188: the POST ends
PostReturn ==
    /\ pc = "posting"
    /\ \E g \in GenOutcomes :
        LET r == query_ollama(g)
        IN  /\ gen' = g
            /\ IF summarise
               THEN IF r.raised THEN Uncaught
                    ELSE IF AfterSummarise = "done"
                    THEN Exit(0, "summarised", <<"summary_header", "summary">>)
                    ELSE /\ pc' = AfterSummarise
                         /\ console' = console \o <<"summary_header", "summary">>
                         /\ UNCHANGED <<exit_code, outcome>>
               ELSE IF r.raised THEN Exit(0, "gen_error", <<"error">>)
                    ELSE Exit(0, "answered", <<IF raw THEN "answer_raw" ELSE "answer">>)
    /\ UNCHANGED <<argv, args, verbose, raw, model, model_specified, summarise,
                   file_path, question, resolved_model, probe, running, net,
                   posted, file_state, rvars>>

Next ==
    \/ Start
    \/ ParseModel
    \/ ParseSummarise
    \/ JoinQuestion
    \/ ProbeSend
    \/ ProbeReturn
    \/ ResolveModel
    \/ SummariseFile
    \/ PostSend
    \/ PostReturn

Spec == Init /\ [][Next]_vars

\* every blocking call carries a timeout (lines 45 and 55) and the steps between
\* them are straight-line code: a step that can be taken is taken
LiveSpec ==
    /\ Spec
    /\ WF_vars(Start) /\ WF_vars(ParseModel) /\ WF_vars(ParseSummarise)
    /\ WF_vars(JoinQuestion) /\ WF_vars(ProbeSend) /\ WF_vars(ProbeReturn)
    /\ WF_vars(ResolveModel) /\ WF_vars(SummariseFile) /\ WF_vars(PostSend)
    /\ WF_vars(PostReturn)

-----------------------------------------------------------------------------
(* Properties of main *)

\* the position of pc along the text of main
Rank(p) ==
    CASE p = "start"           -> 0
      [] p = "parse_model"     -> 1
      [] p = "parse_summarise" -> 2
      [] p = "join"            -> 3
      [] p = "probe"           -> 4
      [] p = "probing"         -> 5
      [] p = "resolve"         -> 6
      [] p = "summarise"       -> 7
      [] p = "post"            -> 8
      [] p = "posting"         -> 9
      [] OTHER                 -> 10

PostOps == { i \in 1..Len(net) : net[i] = "POST" }

\* C1: a generation request is issued only after the liveness probe was issued
\* and returned true; after a probe that did not return true no generation
\* request is ever issued; an invocation issues at most two network operations.
C1_ProbeBeforeGenerate ==
    /\ Len(net) <= 2
    /\ \A i \in PostOps : i = 2 /\ net[1] = "GET" /\ running = "true"
    /\ running \in { "false", "raised" } => PostOps = {} /\ posted = <<>>

C1_Witness == pc = "done" /\ running = "false" /\ net = <<"GET">>

\* every precondition of the request held: arguments, live backend, resolved
\* model and, under --summarise, a readable non-empty file
PassedPreconditions ==
    /\ argv # <<>>
    /\ running = "true"
    /\ ~Resolutions[model].raised
    /\ summarise => file_state = "text"

\* C2: at most one generation request is ever issued (a failed one is not
\* retried), and an invocation that passed every precondition has issued exactly
\* one when it terminates.
C2_ExactlyOneRequest ==
    /\ Len(posted) <= 1
    /\ Cardinality(PostOps) = Len(posted)
    /\ pc = "done" /\ PassedPreconditions => Len(posted) = 1

C2_Witness ==
    /\ pc = "done" /\ summarise /\ PassedPreconditions
    /\ gen \in GenFailures /\ Len(posted) = 1

C4_ProbeNeverRaises ==
    /\ probe \in ProbeFailures => running = "false" /\ outcome = "not_running"
    /\ probe \in HttpResponses => running = "true"

\* the first --model of argv has no value after it
MissingModelValue == InList(argv, "--model") /\ IndexOf(argv, "--model") = Len(argv)

\* the --summarise branch was not entered although the flag is there
MissingFileValue == ~summarise /\ InList(args, "--summarise")

\* C5: a precondition failure (no arguments, a flag without its value, backend
\* unreachable, unknown model, file missing, unreadable or empty) ends with
\* status 1; success, and a failed generation request in question mode, end
\* with status 0.
C5_ExitCodes ==
    pc = "done" =>
        /\ argv = <<>> => exit_code = 1
        /\ MissingModelValue => exit_code = 1
        /\ MissingFileValue => exit_code = 1
        /\ probe \in ProbeFailures => exit_code = 1
        /\ running = "true" /\ Resolutions[model].raised => exit_code = 1
        /\ file_state \in { "missing", "unreadable", "empty" } => exit_code = 1
        /\ gen \in GenSuccesses => exit_code = 0
        /\ ~summarise /\ gen \in GenFailures => exit_code = 0

C5_Witness == pc = "done" /\ ~summarise /\ gen \in GenFailures /\ exit_code = 0

\* C6: every error of the generation request is caught and reported as a
\* printed message, in question mode and under --summarise; none escapes main.
C6_GenerationErrorsCaught ==
    gen \in GenFailures => outcome # "uncaught" /\ InList(console, "error")

\* C10: the model field of every generation request is a canonical identifier
\* of the alias table, whatever --model was given, the empty string and
\* whitespace included.
C10_RequestModelCanonical ==
    \A i \in 1..Len(posted) : posted[i].model \in AliasValues

\* the terminal states the state machine of the invocation names
NamedTerminals == { "not_running", "unknown_model", "gen_error", "answered", "summarised" }

\* C9 as stated: the invocation ends in Unreachable, Unresolved, Failed or
\* Succeeded.
C9_EndsInNamedTerminal == pc = "done" => outcome \in NamedTerminals

\* the exits main takes before the probe, the exits of summarise_file, and an
\* exception escaping main
OtherTerminals == { "usage", "missing_model", "missing_file_path",
                    "file_not_found", "read_error", "file_empty", "uncaught" }

\* C9 as amended: every step moves main forward in its text (no transition
\* back, nothing after the end, --summarise never runs on into the question
\* path), the invocation terminates, and it ends in exactly one terminal state:
\* one the state machine names, or an argument exit, a file exit or an uncaught
\* exception.
C9_LinearPass ==
    /\ [][Rank(pc') > Rank(pc)]_mvars
    /\ [][summarise => summarise' /\ question' = ""]_mvars
    /\ <>(pc = "done")
    /\ [](pc = "done" <=> outcome \in NamedTerminals \cup OtherTerminals)
    /\ [](pc = "done" <=> exit_code # -1)

C9_Witness == pc = "done" /\ summarise /\ outcome = "summarised"

-----------------------------------------------------------------------------
(* Properties of resolve_model_name *)

\* the order of the aliases C7 names
AliasOrder == <<"qwen", "deepseek", "phi3">>

CanonicalOf(a) == (CHOOSE i \in 1..Len(ALIAS_MAP) : ALIAS_MAP[i].alias = a)
CanonicalIn(e) == ALIAS_MAP[e].actual

\* the value C7 expects for the trimmed, lowercased input t
FirstAliasRule(t) ==
    /\ \A i \in 1..Len(AliasOrder) :
          /\ Contains(AliasOrder[i], t)
          /\ \A j \in 1..(i - 1) : ~Contains(AliasOrder[j], t)
          => r_out = Returned(CanonicalIn(CanonicalOf(AliasOrder[i])))
    /\ (\A i \in 1..Len(AliasOrder) : ~Contains(AliasOrder[i], t)) /\ r_in \notin AliasValues
          => r_out.raised

\* C7 as stated: for every non-empty input the result is the canonical
\* identifier of the first alias in the order qwen, deepseek, phi3 contained in
\* the trimmed, lowercased input; an input with no alias that is not a canonical
\* identifier fails.
C7_FirstAliasWins ==
    r_pc # "start" /\ r_in # "" => FirstAliasRule(lower(strip(r_in)))

\* C7 as amended: the same for every input that is non-empty after trimming; a
\* whitespace-only input returns the empty string and does not fail.
C7_FirstAliasWinsTrimmed ==
    r_pc # "start" =>
        /\ strip(r_in) # "" => FirstAliasRule(lower(strip(r_in)))
        /\ strip(r_in) = "" => r_out = Returned("")

C7_Witness ==
    /\ r_pc = "resolved"
    /\ Contains("deepseek", lower(strip(r_in))) /\ Contains("phi3", lower(strip(r_in)))
    /\ r_out = Returned("deepseek-r1:8b")

\* C8: a canonical identifier resolves to itself, and resolving the result of a
\* successful resolution again gives the same result.
C8_Idempotent ==
    /\ r_pc # "start" /\ r_in \in { "qwen3-vl:235b-cloud", "deepseek-r1:8b", "phi3:latest" }
          => r_out = Returned(r_in)
    /\ r_pc = "again" => r_out2 = r_out

C8_Witness == r_pc = "again" /\ r_in = "deepseek-r1:8b" /\ r_out2 = Returned("deepseek-r1:8b")

====
